---- MODULE Spec2Model ----
(***************************************************************************)
(* Model of src/src/device.rs (rs-nfc1): the Device wrapper around one     *)
(* native libnfc device handle.  The native library is the environment:    *)
(* each native call returns one of the outcomes its C interface allows.    *)
(***************************************************************************)
EXTENDS Integers, Sequences, FiniteSets, TLC

\* ---------------------------------------------------------------- bounds
\* Number of native handles nfc_open hands out in one behaviour.
MaxOpens == 2
\* Number of native strings nfc_device_get_information_about allocates.
MaxStrings == 2
\* Largest max_len given to initiator_list_passive_targets.
MaxLen == 2
\* Number of distinct well-formed tags the field can hold.
MaxTags == 1
\* How many bytes past the fixed buffer a connection string may run.
MaxOver == 1
\* Whole poll-period units enumerated from 0 upward.
MaxUnits == 2
\* Largest number of entries before the sentinel of a native array.
MaxArr == 2

\* ------------------------------------------------------ program constants
\* ['\0' as c_char; 1024]
CONNSTRING_LEN == 1024
\* poll_period.as_millis() as f32 / 150.0
PERIOD_DIVISOR == 150
\* .min(255.0)
PERIOD_MAX == 255
\* f32: 24 bits of significand
F32_MANTISSA == 24

VARIABLES
    dev,        \* the handle the live Device owns (Device.ptr), 0: no Device
    opened,     \* handles nfc_open has returned so far: 1..opened
    closes,     \* closes[h]: number of nfc_close calls on handle h
    initiator,  \* the live Device went through a successful initiator_init
    history,    \* outcomes ("ok", "err") of the calls made on the live Device
    strings,    \* native strings allocated by get_information_about
    views,      \* &'static str views the caller holds (by owning handle)
    last        \* what the last call was given and what it returned

vars == <<dev, opened, closes, initiator, history, strings, views, last>>

\* Option<&str>
None == [some |-> FALSE]

Some(s) == [some |-> TRUE, value |-> s]

\* ptr::null_mut(); handles and native strings are numbered from 1.
NULL == 0

\* Negative codes a native call can return (NFC_EIO, NFC_ETIMEOUT).
NativeErrors == {-1, -6}

RECURSIVE Pow2(_)
Pow2(n) == IF n <= 0 THEN 1 ELSE 2 * Pow2(n - 1)

Min(a, b) == IF a <= b THEN a ELSE b

\* ------------------------------------------------------------ wrap_err
\* crate::wrap_err: a negative native code is the error, anything else Ok.
wrap_err(res) ==
    IF res < 0 THEN [kind |-> "Err", code |-> res] ELSE [kind |-> "Ok"]

IsOk(r) == r.kind = "Ok"

Outcome(r) == IF IsOk(r) THEN "ok" ELSE "err"

\* ---------------------------------------------------------- new_device
\* A connection string of n bytes; the bytes differ by position and none
\* is the null byte.
ConnString(n) == [i \in 1..n |-> 65 + (i % 26)]

ConnLens == (0..2) \cup ((CONNSTRING_LEN - 1)..(CONNSTRING_LEN + MaxOver))

ConnStrings == {ConnString(n) : n \in ConnLens}

\* b as c_char: the byte's eight bits.
AsCChar(b) == b % 256

\* lines 71-74: the zero-filled array, then the zip of the string's bytes
\* with the array's slots (the shorter of the two ends the copy).
constring_fixed_size(connstring) ==
    [i \in 1..CONNSTRING_LEN |->
        IF i <= Len(connstring.value) THEN AsCChar(connstring.value[i]) ELSE 0]

\* The locals whose storage is live at the nfc_open call of line 78: the
\* array of line 71 belongs to the if-let block closed at line 76.
LocalsLiveAtOpen == {"context", "connstring", "connstring_ptr"}

\* connstring_ptr at line 78.
connstring_ptr(connstring) ==
    IF connstring.some THEN "constring_fixed_size" ELSE "null"

\* What storage whose scope has ended may hold when it is read.
Clobbered == [i \in 1..CONNSTRING_LEN |-> 255]

\* The bytes nfc_open can find behind ptr, written being what lines 71-74
\* left in the array.
SeenByOpen(ptr, written) ==
    IF ptr = "null" THEN {<<>>}
    ELSE IF ptr \in LocalsLiveAtOpen THEN {written}
    ELSE {written, Clobbered}

\* Variant: the handle is wrapped without the null test.
OpenResult_NoCheck(handle) == [kind |-> "Ok", ptr |-> handle]

\* lines 78-81: Some(ptr) => Ok(Self{ptr}), None => Err(Error::Malloc)
OpenResult(handle) ==
    IF handle # NULL THEN [kind |-> "Ok", ptr |-> handle]
    ELSE [kind |-> "Err", code |-> "Malloc"]

\* lines 68-82.  nfc_open returns a fresh handle or null.
new_device(connstring) ==
    /\ dev = 0
    /\ LET ptr == connstring_ptr(connstring)
           written == IF connstring.some
                      THEN constring_fixed_size(connstring) ELSE <<>>
       IN  \E handle \in {NULL} \cup (IF opened < MaxOpens THEN {opened + 1} ELSE {}),
              seen \in SeenByOpen(ptr, written) :
              LET r == OpenResult(handle) IN
              /\ opened' = IF handle # NULL THEN handle ELSE opened
              /\ dev' = IF IsOk(r) THEN r.ptr ELSE 0
              /\ last' = [op |-> "new_device",
                          connstring |-> connstring,
                          ptr |-> ptr,
                          live |-> ptr \in LocalsLiveAtOpen,
                          written |-> written,
                          seen |-> seen,
                          handle |-> handle,
                          result |-> r]
    /\ initiator' = FALSE
    /\ history' = {}
    /\ UNCHANGED <<closes, strings, views>>

Device_new == new_device(None)

Device_new_with_connstring == \E str \in ConnStrings : new_device(Some(str))

\* ---------------------------------------------------------------- drop
\* Variant: drop without the nfc_close call.
DropCloses_Skip(cl, h) == cl

\* Drop for Device: nfc_close(self.ptr)
DropCloses(cl, h) == [cl EXCEPT ![h] = @ + 1]

Drop ==
    /\ dev # 0
    /\ closes' = DropCloses(closes, dev)
    /\ dev' = 0
    /\ initiator' = FALSE
    /\ history' = {}
    /\ last' = [op |-> "drop", handle |-> dev, history |-> history]
    /\ UNCHANGED <<opened, strings, views>>

\* -------------------------------------------------- calls on a Device
\* A call on the live Device returned r: what the caller sees of it.
Returned(rec, r) ==
    /\ last' = rec
    /\ history' = history \cup {Outcome(r)}

\* initiator_init: wrap_err(nfc_initiator_init(self.ptr))
initiator_init ==
    /\ dev # 0
    /\ \E res \in NativeErrors \cup {0} :
          LET r == wrap_err(res) IN
          /\ initiator' = IsOk(r)
          /\ Returned([op |-> "initiator_init", res |-> res, result |-> r], r)
    /\ UNCHANGED <<dev, opened, closes, strings, views>>

\* idle: wrap_err(nfc_idle(self.ptr))
idle ==
    /\ dev # 0
    /\ \E res \in NativeErrors \cup {0} :
          LET r == wrap_err(res) IN
          Returned([op |-> "idle", res |-> res, result |-> r], r)
    /\ UNCHANGED <<dev, opened, closes, initiator, strings, views>>

\* ------------------------------------------------------------- targets
\* nfc_modulation_type values the crate knows (NMT_ISO14443A = 1, ...).
KnownModulationTypes == 1..8

\* (&Target::new_iso14443a()).into(): the nfc_target every call starts from.
InitTarget == [nmt |-> 1, uid |-> 0]

\* The nfc_target values the native library can write: a tag in the field,
\* or a struct the crate cannot map (an unknown modulation type).
NativeTargets ==
    {[nmt |-> 1, uid |-> t] : t \in 1..MaxTags} \cup {[nmt |-> 0, uid |-> 1]}

\* Target::try_from(nfc_target)
TargetTryFrom(nt) ==
    IF nt.nmt \in KnownModulationTypes
    THEN [kind |-> "Ok", value |-> [nmt |-> nt.nmt, uid |-> nt.uid]]
    ELSE [kind |-> "Err", code |-> "InvalidTarget"]

\* What a single-target native call (select, poll) can do to `target`:
\* fail, find nothing (target untouched), or write the one target found.
SingleTargetOutcomes ==
    {[res |-> e, target |-> InitTarget] : e \in NativeErrors \cup {0}}
    \cup {[res |-> 1, target |-> t] : t \in NativeTargets}

\* wrap_err(..)?; target.try_into()
ThenTryInto(res, target) ==
    IF IsOk(wrap_err(res)) THEN TargetTryFrom(target) ELSE wrap_err(res)

\* lines 146-150 and 152-156: the two differ in the init data they pass on.
select_passive_target(op, init_data) ==
    /\ dev # 0
    /\ \E o \in SingleTargetOutcomes :
          LET r == ThenTryInto(o.res, o.target) IN
          Returned([op |-> op, init_data |-> init_data, res |-> o.res,
                    target |-> o.target, result |-> r], r)
    /\ UNCHANGED <<dev, opened, closes, initiator, strings, views>>

initiator_select_passive_target ==
    select_passive_target("initiator_select_passive_target", <<>>)

initiator_select_passive_target_with_init_data ==
    \E init_data \in {<<0>>} :
        select_passive_target("initiator_select_passive_target_with_init_data",
                              init_data)

\* targets.into_iter().map(|target| target.try_into()).collect(): the
\* first failing conversion is the result, else the vector of all of them.
CollectTargets(targets) ==
    LET bad == {i \in 1..Len(targets) : ~IsOk(TargetTryFrom(targets[i]))} IN
    IF bad # {}
    THEN TargetTryFrom(targets[CHOOSE i \in bad : \A j \in bad : i <= j])
    ELSE [kind |-> "Ok",
          value |-> [i \in 1..Len(targets) |-> TargetTryFrom(targets[i]).value]]

\* lines 158-162
ListResult(res, targets) ==
    IF IsOk(wrap_err(res)) THEN CollectTargets(targets) ELSE wrap_err(res)

initiator_list_passive_targets ==
    /\ dev # 0
    /\ \E max_len \in 0..MaxLen :
       \E res \in NativeErrors \cup (0..max_len) :
       \E found \in [1..(IF res < 0 THEN 0 ELSE res) -> NativeTargets] :
          LET targets == [i \in 1..max_len |->
                             IF i <= Len(found) THEN found[i] ELSE InitTarget]
              r == ListResult(res, targets)
          IN  Returned([op |-> "initiator_list_passive_targets",
                        max_len |-> max_len, res |-> res, found |-> found,
                        result |-> r], r)
    /\ UNCHANGED <<dev, opened, closes, initiator, strings, views>>

\* --------------------------------------------------------- poll period
RECURSIVE BitLen(_)
\* Number of bits of n >= 0 (0 for 0).
BitLen(n) == IF n = 0 THEN 0 ELSE 1 + BitLen(n \div 2)

\* u128 as f32: round to nearest, ties to even, at 24 significant bits.
AsF32(n) ==
    IF BitLen(n) <= F32_MANTISSA THEN n
    ELSE LET unit == Pow2(BitLen(n) - F32_MANTISSA)
             q == n \div unit
             r == n % unit
         IN  IF 2 * r > unit \/ (2 * r = unit /\ q % 2 = 1)
             THEN (q + 1) * unit
             ELSE q * unit

\* (x / d).floor() in f32, x a non-negative f32 integer with x / d < 2^24:
\* the exact quotient q + r/d is rounded to the f32 grid first, whose
\* spacing in the binade of q is 2^(1-k), k = 24 - (BitLen(q) - 1); it
\* lands on q + 1 when the gap (d - r)/d is under half a spacing (or is
\* half a spacing and q + 1 is the even neighbour).
DivFloorF32(x, d) ==
    LET q == x \div d
        r == x % d
        k == F32_MANTISSA - (BitLen(q) - 1)
        up == \/ Pow2(k) <= (d - 1) \div (d - r)
              \/ /\ Pow2(k) <= d
                 /\ Pow2(k) * (d - r) = d
                 /\ (k >= 2 \/ (q + 1) % 2 = 0)
    IN  IF r = 0 THEN q ELSE IF up THEN q + 1 ELSE q

\* f32 as u8: saturating.
AsU8(v) == IF v < 0 THEN 0 ELSE IF v > 255 THEN 255 ELSE v

\* Variant: the quotient rounded to the nearest unit instead of down.
PollPeriodUnit_Nearest(millis) ==
    AsU8(Min((AsF32(millis) + PERIOD_DIVISOR \div 2) \div PERIOD_DIVISOR, PERIOD_MAX))

\* line 167: (poll_period.as_millis() as f32 / 150.0).floor().min(255.0) as u8
PollPeriodUnit(millis) ==
    AsU8(Min(DivFloorF32(AsF32(millis), PERIOD_DIVISOR), PERIOD_MAX))

\* Requested periods in milliseconds: around the first units, around the
\* clamp, and two that f32 cannot hold exactly.
PollPeriods ==
    {u * PERIOD_DIVISOR + d : u \in 0..MaxUnits, d \in {0, 1, PERIOD_DIVISOR - 1}}
    \cup {PERIOD_MAX * PERIOD_DIVISOR + d : d \in {-1, 0, 1, PERIOD_DIVISOR}}
    \cup {Pow2(F32_MANTISSA) + 1, Pow2(30) + 65}

\* lines 164-170
initiator_poll_target ==
    /\ dev # 0
    /\ \E millis \in PollPeriods, o \in SingleTargetOutcomes :
          LET period == PollPeriodUnit(millis)
              r == ThenTryInto(o.res, o.target)
          IN  Returned([op |-> "initiator_poll_target", millis |-> millis,
                        period |-> period, res |-> o.res, target |-> o.target,
                        result |-> r], r)
    /\ UNCHANGED <<dev, opened, closes, initiator, strings, views>>

\* ------------------------------------------------ get_information_about
\* nfc_free(p): the library releases the string p.
nfc_free(strs, p) ==
    [strs EXCEPT ![p] = [@ EXCEPT !.state = "released", !.nfc_free = @ + 1]]

\* What nfc_device_get_information_about can do: succeed with a string of
\* its own allocation behind *buf; fail before allocating (*buf untouched);
\* fail after allocating, having released the buffer itself (*buf stale).
InfoOutcomes ==
    {[res |-> e, alloc |-> FALSE, text |-> ""] : e \in NativeErrors}
    \cup (IF Len(strings) < MaxStrings
          THEN {[res |-> e, alloc |-> TRUE, text |-> ""] : e \in NativeErrors}
               \cup {[res |-> Len(t), alloc |-> TRUE, text |-> t] : t \in {"", "chip"}}
          ELSE {})

\* The strings after the native call o.
AfterNativeInfo(strs, o) ==
    IF o.alloc
    THEN Append(strs, [state |-> IF o.res < 0 THEN "released" ELSE "live",
                       handed |-> o.res >= 0, nfc_free |-> 0])
    ELSE strs

\* strinfo_ptr after the native call (line 348: null before it).
strinfo_ptr(strs, o) == IF o.alloc THEN Len(strs) + 1 ELSE NULL

\* Variant: the string is copied and never released.
InfoStrings_NoFree(strs, res, ptr) == strs

\* lines 349-351 on the native strings: the early return of `?`, else the
\* copy and nfc_free(strinfo_ptr).
InfoStrings(strs, res, ptr) ==
    IF IsOk(wrap_err(res)) THEN nfc_free(strs, ptr) ELSE strs

\* lines 347-353
get_information_about ==
    /\ dev # 0
    /\ \E o \in InfoOutcomes :
          LET ptr == strinfo_ptr(strings, o)
              r == IF IsOk(wrap_err(o.res))
                   THEN [kind |-> "Ok", value |-> o.text]
                   ELSE wrap_err(o.res)
          IN  /\ strings' = InfoStrings(AfterNativeInfo(strings, o), o.res, ptr)
              /\ Returned([op |-> "get_information_about", res |-> o.res,
                           ptr |-> ptr, result |-> r], r)
    /\ UNCHANGED <<dev, opened, closes, initiator, views>>

\* ------------------------------------------------------ name, connstring
\* lines 282-292: both return &'static str into the native device struct.
accessor(op) ==
    /\ dev # 0
    /\ views' = views \cup {dev}
    /\ Returned([op |-> op, of |-> dev], [kind |-> "Ok"])
    /\ UNCHANGED <<dev, opened, closes, initiator, strings>>

name == accessor("name")

connstring == accessor("connstring")

\* The lifetime the accessors give their result: 'static outlives every
\* Device, so the borrow checker lets the caller read a view at any time.
ViewReadable(h) == TRUE

\* The caller reads a view it holds.
ReadView ==
    /\ \E h \in views :
          /\ ViewReadable(h)
          /\ last' = [op |-> "read_view", of |-> h, closed |-> closes[h] > 0]
    /\ UNCHANGED <<dev, opened, closes, initiator, history, strings, views>>

\* ------------------------------------- supported modulations, baud rates
\* ModulationType::from(nfc_modulation_type)
ModulationTypeFrom(v) ==
    <<"Iso14443a", "Jewel", "Iso14443b", "Iso14443bi",
      "Iso14443b2sr", "Iso14443b2ct", "Felica", "Dep">>[v]

\* BaudRate::from(nfc_baud_rate)
BaudRateFrom(v) == <<"Baud106", "Baud212", "Baud424", "Baud847">>[v]

\* The native arrays: entries, the zero sentinel, then whatever memory
\* follows the array.
NativeArrays ==
    {[entries |-> e, mem |-> e \o <<0>> \o tail] :
        e \in UNION {[1..n -> 1..2] : n \in 0..MaxArr},
        tail \in {<<>>, <<2, 0>>}}

RECURSIVE ScanSentinel_OffByOne(_, _, _)
\* Variant: the loop reads index i + 1 where the code reads index i.
ScanSentinel_OffByOne(mem, i, vec) ==
    IF i + 1 >= Len(mem) THEN [oob |-> TRUE, vec |-> vec, reads |-> i + 1]
    ELSE LET val == mem[i + 2] IN
         IF val = 0
         THEN [oob |-> FALSE, vec |-> vec, reads |-> i + 1]
         ELSE ScanSentinel_OffByOne(mem, i + 1, Append(vec, val))

RECURSIVE ScanSentinel(_, _, _)
\* lines 303-308 and 325-330: the loop from index i on, vec the values
\* pushed so far.  reads: how many indices (0..reads-1) were read; oob: the
\* loop read outside the memory the library owns.
ScanSentinel(mem, i, vec) ==
    IF i >= Len(mem) THEN [oob |-> TRUE, vec |-> vec, reads |-> i]
    ELSE LET val == mem[i + 1] IN
         IF val = 0
         THEN [oob |-> FALSE, vec |-> vec, reads |-> i + 1]
         ELSE ScanSentinel(mem, i + 1, Append(vec, val))

\* lines 294-311 and 313-333 share their shape: the native call, `?`, the
\* scan, each value translated as it is pushed.
supported(op, native) ==
    /\ dev # 0
    /\ \/ \E e \in NativeErrors :
             Returned([op |-> op, native |-> native, res |-> e,
                       result |-> wrap_err(e)], wrap_err(e))
       \/ \E a \in NativeArrays :
             LET scan == ScanSentinel(a.mem, 0, <<>>)
                 r == [kind |-> "Ok",
                       value |-> [j \in 1..Len(scan.vec) |->
                                    IF op = "get_supported_modulation"
                                    THEN ModulationTypeFrom(scan.vec[j])
                                    ELSE BaudRateFrom(scan.vec[j])]]
             IN  Returned([op |-> op, native |-> native, res |-> 0,
                           entries |-> a.entries, mem |-> a.mem,
                           reads |-> scan.reads, oob |-> scan.oob,
                           result |-> r], r)
    /\ UNCHANGED <<dev, opened, closes, initiator, strings, views>>

\* mode is handed to the native call as it is.
get_supported_modulation ==
    supported("get_supported_modulation",
              "nfc_device_get_supported_modulation")

get_supported_baud_rate ==
    \E mode \in {"Initiator", "Target"} :
        supported("get_supported_baud_rate",
                  IF mode = "Initiator"
                  THEN "nfc_device_get_supported_baud_rate"
                  ELSE "nfc_device_get_supported_baud_rate_target_mode")

Init ==
    /\ dev = 0
    /\ opened = 0
    /\ closes = [h \in 1..MaxOpens |-> 0]
    /\ initiator = FALSE
    /\ history = {}
    /\ strings = <<>>
    /\ views = {}
    /\ last = [op |-> "none"]

\* Every operation of the Device.
Next ==
    \/ Device_new
    \/ Device_new_with_connstring
    \/ Drop
    \/ initiator_init
    \/ idle
    \/ initiator_select_passive_target
    \/ initiator_select_passive_target_with_init_data
    \/ initiator_list_passive_targets
    \/ initiator_poll_target
    \/ get_information_about
    \/ name
    \/ connstring
    \/ ReadView
    \/ get_supported_modulation
    \/ get_supported_baud_rate

Spec == Init /\ [][Next]_vars

\* A caller that opens, initialises, selects, reads the accessors and drops.
NextLifecycle ==
    \/ Device_new
    \/ Device_new_with_connstring
    \/ Drop
    \/ initiator_init
    \/ idle
    \/ initiator_select_passive_target
    \/ initiator_select_passive_target_with_init_data
    \/ name
    \/ connstring
    \/ ReadView

SpecLifecycle == Init /\ [][NextLifecycle]_vars

\* A caller that opens, polls and drops.
NextPoll ==
    \/ Device_new
    \/ Drop
    \/ initiator_init
    \/ initiator_poll_target

SpecPoll == Init /\ [][NextPoll]_vars

\* A caller that opens, asks for the device's description and drops.
NextInfo ==
    \/ Device_new
    \/ Drop
    \/ get_information_about

SpecInfo == Init /\ [][NextInfo]_vars

\* A caller that opens, asks what the device supports and drops.
NextSupported ==
    \/ Device_new
    \/ Drop
    \/ get_supported_modulation
    \/ get_supported_baud_rate

SpecSupported == Init /\ [][NextSupported]_vars

\* ------------------------------------------------------------ the claims
IsOpen == last.op = "new_device"

IsSelect ==
    last.op \in {"initiator_select_passive_target",
                 "initiator_select_passive_target_with_init_data"}

IsSupported == last.op \in {"get_supported_modulation", "get_supported_baud_rate"}

\* C1: a handle nfc_open returned and whose Device was destroyed has been
\* closed exactly once; a handle whose Device is alive, or that was never
\* returned, has not been closed.
C1_ClosedExactlyOnce ==
    \A h \in DOMAIN closes :
        closes[h] = IF h <= opened /\ h # dev THEN 1 ELSE 0

\* C1 witness: a Device one of whose calls returned an error was dropped,
\* and its handle was closed once.
C1_Witness ==
    /\ last.op = "drop"
    /\ "err" \in last.history
    /\ closes[last.handle] = 1

\* C2: the buffer new_device fills for a connection string of n bytes holds
\* the n bytes then nulls when n < 1024, the first 1023 bytes then a null at
\* index 1023 when n >= 1024, and in every case at least one null byte.
C2_BufferNullTerminated ==
    (IsOpen /\ last.connstring.some) =>
        LET str == last.connstring.value
            n == Len(str)
            buf == last.written
        IN  /\ Len(buf) = CONNSTRING_LEN
            /\ n < CONNSTRING_LEN =>
                  \A i \in 1..CONNSTRING_LEN :
                      buf[i] = IF i <= n THEN str[i] ELSE 0
            /\ n >= CONNSTRING_LEN =>
                  /\ \A i \in 1..(CONNSTRING_LEN - 1) : buf[i] = str[i]
                  /\ buf[CONNSTRING_LEN] = 0
            /\ \E i \in 1..CONNSTRING_LEN : buf[i] = 0

\* C3: when the native list call reports k targets, the vector returned
\* holds exactly k Targets, the conversions of the first k entries.
C3_ListReturnsFound ==
    (/\ last.op = "initiator_list_passive_targets"
     /\ last.res >= 0
     /\ IsOk(last.result)) =>
        /\ Len(last.result.value) = last.res
        /\ \A i \in 1..Min(last.res, Len(last.result.value)) :
              last.result.value[i] = TargetTryFrom(last.found[i]).value

\* C4: after initiator_init, a select to which no tag answers (the native
\* call returns 0) does not return Ok(Target).
C4_NoTargetIsNotOk ==
    (IsSelect /\ initiator /\ last.res = 0) => ~IsOk(last.result)

\* C5: the unit handed to nfc_initiator_poll_target for p milliseconds is 0
\* for p = 0, 255 for p >= 38250, floor(p / 150) in between, and always in
\* 0..255.
C5_PollPeriodUnit ==
    last.op = "initiator_poll_target" =>
        /\ last.period \in 0..255
        /\ last.period = IF last.millis = 0 THEN 0
                         ELSE IF last.millis >= 38250 THEN 255
                         ELSE last.millis \div 150

\* C5 witness: the last period below the clamp was polled with.
C5_Witness ==
    /\ last.op = "initiator_poll_target"
    /\ last.millis = 38249
    /\ last.period = 254

C7_NoReadAfterClose ==
    last.op = "read_view" => ~last.closed

\* C8: an open attempt ends in exactly one of: a Device owning the non-null
\* handle, or Error::Malloc with no Device and no nfc_close for the attempt.
C8_OpenOneOutcome ==
    IsOpen =>
        /\ last.result.kind \in {"Ok", "Err"}
        /\ IsOk(last.result) <=> last.handle # NULL
        /\ IsOk(last.result) => (last.result.ptr = last.handle /\ dev = last.handle)
        /\ ~IsOk(last.result) =>
              /\ last.result.code = "Malloc"
              /\ dev = 0
              /\ \A h \in DOMAIN closes : closes[h] = IF h <= opened THEN 1 ELSE 0

\* C8 witness: after an earlier Device was opened and dropped, an open
\* attempt got no handle and returned the allocation error.
C8_Witness ==
    /\ IsOpen
    /\ last.handle = NULL
    /\ ~IsOk(last.result)
    /\ opened >= 1

\* C9: after a successful native call the scan stays inside the array, reads
\* indices 0 up to the first zero and no further, and returns the
\* translations of the entries before it, in order (none when the first
\* entry is the sentinel).
C9_ScanStopsAtSentinel ==
    (IsSupported /\ last.res >= 0) =>
        /\ ~last.oob
        /\ last.reads = Len(last.entries) + 1
        /\ IsOk(last.result)
        /\ Len(last.result.value) = Len(last.entries)
        /\ \A j \in 1..Min(Len(last.entries), Len(last.result.value)) :
              last.result.value[j] =
                  IF last.op = "get_supported_modulation"
                  THEN ModulationTypeFrom(last.entries[j])
                  ELSE BaudRateFrom(last.entries[j])
        /\ last.mem[1] = 0 => last.result.value = <<>>

\* C9 witness: an array of two baud rates, with memory after its sentinel.
C9_Witness ==
    /\ last.op = "get_supported_baud_rate"
    /\ last.res >= 0
    /\ Len(last.entries) = 2
    /\ Len(last.mem) > 3
    /\ Len(last.result.value) = 2

\* C10: when new_device hands nfc_open a non-null pointer, the buffer it
\* points to is still in scope.
C10_BufferLiveAtOpen ==
    (IsOpen /\ last.ptr # "null") => last.live
====
